---- MODULE Spec2Model ----
(***************************************************************************)
(* Model of mc_backup_manager (src/backup_manager.py): the retention       *)
(* planner determine_backups_to_delete and the upload/prune cycle          *)
(* process_backups driven by main.                                         *)
(*                                                                         *)
(* Time is measured in whole units since the Unix epoch; durations are in  *)
(* the same unit.  A backup is a pair <<timestamp, path>> as in the        *)
(* source (List[Tuple[datetime, BackupPath]]).                             *)
(***************************************************************************)
EXTENDS Integers, Sequences, FiniteSets, TLC

\* ---------------------------------------------------------------- bounds
\* Planner inputs: timestamps 0..MaxT, at most MaxLen backups, checkpoint
\* durations 1..MaxDur, at most MaxTiers checkpoints.
MaxT == 8
MaxLen == 4
MaxDur == 4
MaxTiers == 3

\* Cycle model: archive timestamps 0..MaxStamp; the backup directory starts
\* with at most MaxInitial archives, and so do the destinations together.
MaxStamp == 4
MaxInitial == 2

VARIABLES
    storages,       \* config.storages: the StoragePolicy list
    dry_run,        \* config.dry_run
    loop,           \* config.loop
    local,          \* names of the files in config.backup_dir
    store,          \* store[d]: names of the files held at destination d
    last_uploaded,  \* the cursor kept by main
    pc,             \* position of main / process_backups
    cycle_backups,  \* process_backups: the list find_backups returned
    idx,            \* index of the policy the running for loop is at
    exit_code,      \* status returned by the last process_backups call
    outcome,        \* how the last process_backups call ended
    cursor0,        \* last_uploaded as passed to the running/last call
    local0,         \* local when the running/last call began
    store0,         \* store when the running/last call began
    uploaded,       \* policies whose upload returned in this call
    local_pruned,   \* delete_old_backups(local_deletions) ran in this call
    listed,         \* policies whose backend was listed in this call
    pruned,         \* policies whose retention pruning ran in this call
    written,        \* <<destination, name>> an upload wrote in this call
    raised,         \* the error raised in this call: none, upload, listing, deletion
    decisions,      \* <<policy index, target>> of each RetentionDeletion planned in this call
    startup,        \* what main met before its loop: "none" until it has started
    main_return,    \* the status main returned, -1 while it has not returned
    previous        \* how the last call of the process run before this one ended

cvars == <<storages, dry_run, loop, local, store, last_uploaded, pc, cycle_backups,
           idx, exit_code, outcome, cursor0, local0, store0, uploaded,
           local_pruned, listed, pruned,
           written,
           raised,
           decisions,
           startup, main_return, previous>>

VARIABLES
    p_pc,           \* planner harness position: "input", "planned", "replanned", "delivered"
    p_backups,      \* the backup list handed to determine_backups_to_delete
    p_checkpoints,  \* the retention_checkpoints handed to it
    p_deletions,    \* its result
    p_again,        \* its result on the backups the first run retained
    p_kind,         \* the kind of the destination the decisions were sent to
    p_received      \* the targets the destination was asked to delete, in order

pvars == <<p_pc, p_backups, p_checkpoints, p_deletions, p_again, p_kind,
           p_received>>

VARIABLES
    m_pc,                        \* merge_config position: "args", "retention", "entries", "merged", "error"
    args_retention_checkpoints,  \* args.retention_checkpoints
    file_retention_checkpoints,  \* file_cfg["retention_checkpoints"]
    args_storage_uris,           \* retention part of each --storage definition
    file_storage_entries,        \* retention of each storage.<name>.* group
    legacy_storage,              \* file_cfg has a storage_uri
    required,                    \* "ok", or the required setting that is bad
    retention_value,             \* merge_config: the global checkpoint list
    storage_entries,             \* merge_config: the retention overrides
    merged_storages              \* BackupConfig.storages as returned

mvars == <<m_pc, args_retention_checkpoints, file_retention_checkpoints,
           args_storage_uris, file_storage_entries, legacy_storage, required,
           retention_value, storage_entries, merged_storages>>

VARIABLES
    k_pc,       \* catalog harness position: "files", "found", "pruned"
    k_files,    \* the names of the files in a backup directory
    k_found,    \* find_backups of it
    k_left      \* the files left once all but the latest found are deleted

kvars == <<k_pc, k_files, k_found, k_left>>

VARIABLES
    r_pc,        \* restore position: "idle", "args", "loop", "done", "raised"
    r_problem,   \* what is wrong with the arguments of the restore, if anything
    r_dry_run,   \* its dry_run argument
    r_archive,   \* the names of the top-level directories of the archive
    r_server,    \* the server directory: entry name -> content
    r_server0,   \* the server directory when the restore was called
    r_todo,      \* top_level_dirs still to be visited
    r_now        \* the clock, in seconds

rvars == <<r_pc, r_problem, r_dry_run, r_archive, r_server, r_server0, r_todo,
           r_now>>

vars == <<cvars, pvars, mvars, kvars, rvars>>

\* ------------------------------------------------------------- sequences
\* backups[:-1]
AllButLast(s) == IF Len(s) = 0 THEN <<>> ELSE SubSeq(s, 1, Len(s) - 1)

Min(a, b) == IF a < b THEN a ELSE b
Max(a, b) == IF a > b THEN a ELSE b

\* -------------------------------------------------------------- planner
\* _timestamp_slot: whole seconds since the epoch, floor-divided.
_timestamp_slot(timestamp, granularity_seconds) ==
    timestamp \div granularity_seconds

\* The while loop of determine_backups_to_delete, started at bucket_index.
RECURSIVE bucket_loop(_, _, _)
bucket_loop(durations, age_seconds, bucket_index) ==
    IF bucket_index < Len(durations) /\ age_seconds > durations[bucket_index + 1]
    THEN bucket_loop(durations, age_seconds, bucket_index + 1)
    ELSE bucket_index

\* Variant without the one-tier lag: the granularity of the tier itself.
granularity_for_no_lag(bucket_index, durations) ==
    durations[Min(bucket_index, Len(durations) - 1) + 1]

\* index_for_label and granularity_seconds; durations are 0-indexed in the
\* source and 1-indexed here, hence the + 1 on the subscript.
granularity_for(bucket_index, durations) ==
    LET index_for_label == Min(Max(bucket_index - 1, 0), Len(durations) - 1)
    IN  durations[index_for_label + 1]

slot_key(timestamp, age_seconds, durations) ==
    LET bucket_index == bucket_loop(durations, age_seconds, 0)
    IN  <<bucket_index,
          _timestamp_slot(timestamp, granularity_for(bucket_index, durations))>>

\* Variant with the boundary excluded.
within_first_checkpoint_strict(age_seconds, durations) ==
    age_seconds < durations[1]

\* "if age_seconds <= durations[0]: continue"
within_first_checkpoint(age_seconds, durations) ==
    age_seconds <= durations[1]

\* A RetentionDeletion; the reason text names the granularity (0 stands for
\* the "no checkpoints configured" text).
RetentionDeletion(path, granularity_seconds) ==
    [target |-> path, reason |-> granularity_seconds]

\* Variant of the walk that schedules the first backup seen for a slot and
\* keeps the ones seen after it.
RECURSIVE retention_walk_first_deleted(_, _, _, _, _)
retention_walk_first_deleted(backups, durations, k, seen_slots, to_delete) ==
    IF k = 0 THEN to_delete
    ELSE
        LET timestamp == backups[k][1]
            path == backups[k][2]
            reference_time == backups[Len(backups)][1]
            age_seconds == reference_time - timestamp
            key == slot_key(timestamp, age_seconds, durations)
            granularity_seconds == granularity_for(key[1], durations)
        IN  IF within_first_checkpoint(age_seconds, durations)
            THEN retention_walk_first_deleted(backups, durations, k - 1,
                                              seen_slots, to_delete)
            ELSE IF key \notin seen_slots
            THEN retention_walk_first_deleted(backups, durations, k - 1,
                     seen_slots \cup {key},
                     Append(to_delete, RetentionDeletion(path, granularity_seconds)))
            ELSE retention_walk_first_deleted(backups, durations, k - 1,
                                              seen_slots, to_delete)

\* The for loop over reversed(backups[:-1]): k is the (1-based) position of
\* the backup visited next, k = 0 when the walk is over.
RECURSIVE retention_walk(_, _, _, _, _)
retention_walk(backups, durations, k, seen_slots, to_delete) ==
    IF k = 0 THEN to_delete
    ELSE
        LET timestamp == backups[k][1]
            path == backups[k][2]
            reference_time == backups[Len(backups)][1]
            age_seconds == reference_time - timestamp
            key == slot_key(timestamp, age_seconds, durations)
            granularity_seconds == granularity_for(key[1], durations)
        IN  IF within_first_checkpoint(age_seconds, durations)
            THEN retention_walk(backups, durations, k - 1, seen_slots, to_delete)
            ELSE IF key \in seen_slots
            THEN retention_walk(backups, durations, k - 1, seen_slots,
                     Append(to_delete, RetentionDeletion(path, granularity_seconds)))
            ELSE retention_walk(backups, durations, k - 1,
                                seen_slots \cup {key}, to_delete)

\* Variant that schedules every entry, the newest included.
keep_only_latest_all(backups) ==
    [k \in 1..Len(backups) |-> RetentionDeletion(backups[k][2], 0)]

\* Variant that spares the entries whose timestamp equals the newest one's.
keep_only_latest_skip_ties(backups) ==
    LET older(d) == \E k \in 1..(Len(backups) - 1) :
                       /\ backups[k][2] = d.target
                       /\ backups[k][1] < backups[Len(backups)][1]
    IN  SelectSeq([k \in 1..(Len(backups) - 1) |->
                      RetentionDeletion(backups[k][2], 0)], older)

\* The branch taken when retention_checkpoints is empty: one decision per
\* entry of backups[:-1], in list order.
keep_only_latest(backups) ==
    [k \in 1..(Len(backups) - 1) |-> RetentionDeletion(backups[k][2], 0)]

determine_backups_to_delete(backups, retention_checkpoints) ==
    IF Len(backups) <= 1 THEN <<>>
    ELSE IF retention_checkpoints = <<>> THEN keep_only_latest(backups)
    ELSE retention_walk(backups, retention_checkpoints, Len(backups) - 1, {}, <<>>)

\* ------------------------------------------------------------ file names
\* A file name is either an archive name YYYY-MM-DD-HH-MM-SS.zip, written
\* zero-padded as the server writes it and identified by its timestamp, or a
\* .zip file whose stem is not a timestamp.
ArchiveName(t) == [kind |-> "archive", stamp |-> t]
OtherFile == [kind |-> "other", stamp |-> -1]
None == [kind |-> "none", stamp |-> -1]

ArchiveNames == {ArchiveName(t) : t \in 0..MaxStamp}
FileNames == ArchiveNames \cup {OtherFile}

\* A name whose fields are not zero-padded ("2024-1-5-3-4-5.zip"): it is not
\* of the form YYYY-MM-DD-HH-MM-SS.zip, and strptime reads it as the
\* timestamp of its padded twin.
UnpaddedName(t) == [kind |-> "unpadded", stamp |-> t]

\* datetime.strptime(stem, BACKUP_FORMAT): succeeds on archive names, padded
\* or not, and on no other name.
strptime_ok(name) == name.kind \in {"archive", "unpadded"}
strptime(name) == name.stamp

\* backups.sort(key=timestamp) over the entries that parse: the list
\* ascending by timestamp, built from its last element down.
RECURSIVE sort_by_timestamp(_)
sort_by_timestamp(entries) ==
    IF entries = {} THEN <<>>
    ELSE LET last == CHOOSE e \in entries : \A f \in entries : f[1] <= e[1]
         IN  Append(sort_by_timestamp(entries \ {last}), last)

\* find_backups (and the listing of a backend, which filters the same way):
\* <<timestamp, path>> for every conforming name, ascending.
find_backups(files) ==
    sort_by_timestamp({<<strptime(n), n>> : n \in {m \in files : strptime_ok(m)}})

\* ------------------------------------------------------------ configuration
Destinations == {"A", "B"}

\* The checkpoint lists a policy may carry (strictly increasing, positive).
RetentionChoices == {<<>>, <<1, 2>>}

StoragePolicy(target, retention_checkpoints) ==
    [target |-> target, retention_checkpoints |-> retention_checkpoints]

\* One policy, or two policies with different checkpoints to different
\* destinations or to the same one; the first policy always targets "A"
\* (the destinations are symmetric).
StorageLists ==
    {<<StoragePolicy("A", c)>> : c \in RetentionChoices}
    \cup {<<StoragePolicy("A", c[1]), StoragePolicy(d, c[2])>> :
             c \in {e \in RetentionChoices \X RetentionChoices : e[1] # e[2]},
             d \in Destinations}

\* ------------------------------------------------------------ merge_config
\* Largest number written in a duration, and most comma-separated parts of a
\* checkpoint text.
MaxAmount == 1
MaxParts == 2

\* One comma-separated part of a checkpoint text, stripped: whether it has a
\* number part, that number, and its last character when alphabetic.
Part(digits, amount, suffix) ==
    [digits |-> digits, amount |-> amount, suffix |-> suffix]

EmptyPart == Part(FALSE, 0, "")

\* "0", "1s", "1m", ...; "1x" (unsupported suffix); "m" (no number); "".
Parts ==
    {Part(TRUE, a, s) : a \in 0..MaxAmount, s \in {"", "s", "m"}}
    \cup {Part(TRUE, 1, "x"), Part(FALSE, 0, "m"), EmptyPart}

\* An optional string of the configuration: absent (None), a list of parts
\* (the empty string has no parts), or one of the words the retention
\* override understands.
NoText == [kind |-> "absent", parts |-> <<>>, word |-> ""]
ListText(parts) == [kind |-> "list", parts |-> parts, word |-> ""]
WordText(word) == [kind |-> "word", parts |-> <<>>, word |-> word]

InheritWords == {"default", "inherit"}
DisableWords == {"none", "off", "disable", "disabled"}

ListTexts == UNION {{ListText(p) : p \in [1..n -> Parts]} : n \in 0..MaxParts}
Texts == ListTexts \cup {WordText(w) : w \in InheritWords \cup DisableWords}

\* The result of a parsing function: a value, or ConfigurationError raised.
Parsed(value) == [ok |-> TRUE, value |-> value]
DurationError == [ok |-> FALSE, value |-> 0]
ConfigurationError == [ok |-> FALSE, value |-> <<>>]

\* units[suffix], for the seconds and minutes suffixes.
units(suffix) == IF suffix = "m" THEN 60 ELSE 1

parse_duration(part) ==
    IF part.suffix \notin {"", "s", "m"} THEN DurationError
    ELSE IF ~part.digits THEN DurationError
    ELSE LET seconds == part.amount * units(part.suffix)
         IN  IF seconds <= 0 THEN DurationError ELSE Parsed(seconds)

\* value.split(","), stripped; a word is one part with no number in it.
split(text) ==
    IF text.kind = "word" THEN <<Part(FALSE, 0, "x")>> ELSE text.parts

parse_duration_list_allows_ties(text) ==
    IF text.kind = "list" /\ text.parts = <<>> THEN Parsed(<<>>)
    ELSE LET parts == SelectSeq(split(text), LAMBDA p : p # EmptyPart)
             results == [k \in 1..Len(parts) |-> parse_duration(parts[k])]
             durations == [k \in 1..Len(parts) |-> results[k].value]
         IN  IF \E k \in 1..Len(parts) : ~results[k].ok THEN ConfigurationError
             ELSE IF durations = <<>> THEN Parsed(<<>>)
             ELSE IF \E k \in 1..(Len(durations) - 1) :
                         durations[k + 1] < durations[k]
                  THEN ConfigurationError
                  ELSE Parsed(durations)

parse_duration_list(text) ==
    IF text.kind = "list" /\ text.parts = <<>> THEN Parsed(<<>>)
    ELSE LET parts == SelectSeq(split(text), LAMBDA p : p # EmptyPart)
             results == [k \in 1..Len(parts) |-> parse_duration(parts[k])]
             durations == [k \in 1..Len(parts) |-> results[k].value]
         IN  IF \E k \in 1..Len(parts) : ~results[k].ok THEN ConfigurationError
             ELSE IF durations = <<>> THEN Parsed(<<>>)
             ELSE IF \E k \in 1..(Len(durations) - 1) :
                         durations[k + 1] <= durations[k]
                  THEN ConfigurationError
                  ELSE Parsed(durations)

_resolve_retention_policy(override, default_retention) ==
    IF override = NoText THEN Parsed(default_retention)
    ELSE IF override.kind = "list" /\ override.parts = <<>> THEN Parsed(<<>>)
    ELSE IF override.kind = "word" /\ override.word \in InheritWords
         THEN Parsed(default_retention)
    ELSE IF override.kind = "word" /\ override.word \in DisableWords
         THEN Parsed(<<>>)
    ELSE parse_duration_list(override)

\* The destination the k-th storage entry's URI parses to.
parse_storage(k) == IF k = 1 THEN "A" ELSE "B"

\* The texts the fields beside the one under study are drawn from.
SampleTexts ==
    {NoText,
     ListText(<<Part(TRUE, 1, "s"), Part(TRUE, 1, "m")>>),
     ListText(<<Part(TRUE, 1, "m"), Part(TRUE, 1, "s")>>)}

SampleOverrides == {NoText, WordText("default"), ListText(<<Part(TRUE, 1, "m")>>)}

\* The retention overrides of a list of storage definitions: none, one, or
\* (when the list is the field under study) two.
EntryLists(studied) ==
    IF studied
    THEN {<<t>> : t \in Texts \cup {NoText}}
         \cup {<<t, s>> : t \in Texts \cup {NoText}, s \in SampleOverrides}
    ELSE {<<>>} \cup {<<s>> : s \in SampleOverrides}

\* The variables of the merge_config model at rest.
MergeIdle ==
    /\ m_pc = "idle"
    /\ args_retention_checkpoints = NoText
    /\ file_retention_checkpoints = NoText
    /\ args_storage_uris = <<>>
    /\ file_storage_entries = <<>>
    /\ legacy_storage = FALSE
    /\ required = "ok"
    /\ retention_value = <<>>
    /\ storage_entries = <<>>
    /\ merged_storages = <<>>

\* The variables of the restore model at rest.
RestoreIdle ==
    /\ r_pc = "idle"
    /\ r_problem = "none"
    /\ r_dry_run = FALSE
    /\ r_archive = {}
    /\ r_server = <<>>
    /\ r_server0 = <<>>
    /\ r_todo = <<>>
    /\ r_now = 0

\* The variables of the catalog harness at rest.
CatalogIdle ==
    /\ k_pc = "idle"
    /\ k_files = {}
    /\ k_found = <<>>
    /\ k_left = {}

\* The variables of the cycle model at rest, for the other specifications.
CycleIdle ==
    /\ storages = <<>>
    /\ dry_run = FALSE
    /\ loop = FALSE
    /\ local = {}
    /\ store = [d \in Destinations |-> {}]
    /\ last_uploaded = None
    /\ pc = "exited"
    /\ cycle_backups = <<>>
    /\ idx = 0
    /\ exit_code = 0
    /\ outcome = "none"
    /\ cursor0 = None
    /\ local0 = {}
    /\ store0 = [d \in Destinations |-> {}]
    /\ uploaded = {}
    /\ local_pruned = FALSE
    /\ listed = {}
    /\ pruned = {}
    /\ decisions = {}
    /\ raised = "none"
    /\ written = {}
    /\ startup = "none"
    /\ main_return = -1
    /\ previous = "none"

\* --------------------------------------------------- planner specification
\* Ascending backup lists; the path of the k-th entry is k (paths are unique,
\* timestamps need not be).
BackupLists ==
    UNION {{[k \in 1..n |-> <<f[k], k>>] :
              f \in {g \in [1..n -> 0..MaxT] :
                        \A k \in 1..(n - 1) : g[k] <= g[k + 1]}} :
           n \in 0..MaxLen}

\* Checkpoint lists of positive durations, in any order.
CheckpointLists == UNION {[1..n -> 1..MaxDur] : n \in 0..MaxTiers}

StrictlyIncreasing(durations) ==
    \A i \in 1..(Len(durations) - 1) : durations[i] < durations[i + 1]

Targets(deletions) == {deletions[k].target : k \in 1..Len(deletions)}

\* The backups a run leaves in place, in list order.
Retained(backups, deletions) ==
    LET kept(b) == b[2] \notin Targets(deletions)
    IN  SelectSeq(backups, kept)

PlannerInit ==
    /\ CycleIdle
    /\ MergeIdle
    /\ CatalogIdle
    /\ RestoreIdle
    /\ p_pc = "input"
    /\ p_backups \in BackupLists
    /\ p_checkpoints \in CheckpointLists
    /\ p_deletions = <<>>
    /\ p_again = <<>>
    /\ p_kind = "none"
    /\ p_received = <<>>

Plan ==
    /\ p_pc = "input"
    /\ p_deletions' = determine_backups_to_delete(p_backups, p_checkpoints)
    /\ p_pc' = "planned"
    /\ UNCHANGED <<p_backups, p_checkpoints, p_again, p_kind, p_received>>
    /\ UNCHANGED <<cvars, mvars, kvars, rvars>>

Replan ==
    /\ p_pc = "planned"
    /\ p_again' = determine_backups_to_delete(
                      Retained(p_backups, p_deletions), p_checkpoints)
    /\ p_pc' = "replanned"
    /\ UNCHANGED <<p_backups, p_checkpoints, p_deletions, p_kind, p_received>>
    /\ UNCHANGED <<cvars, mvars, kvars, rvars>>

\* The three kinds of destination process_backups prunes.
StorageKinds == {"local", "s3", "gdrive"}

RECURSIVE Flatten(_)
Flatten(calls) ==
    IF calls = <<>> THEN <<>> ELSE Head(calls) \o Flatten(Tail(calls))

\* Variant that hands the decisions over in reverse.
delete_requests_reversed(kind, deletions) ==
    [k \in 1..Len(deletions) |-> deletions[Len(deletions) + 1 - k].target]

\* What the destination's delete primitive is asked to remove, in order.  A
\* local destination gets delete_old_backups(local_paths) after every append
\* to local_paths, so every prefix of the decisions in turn; s3 and Drive get
\* one call with the whole list, which they walk in list order.
delete_requests(kind, deletions) ==
    IF kind = "local"
    THEN Flatten([n \in 1..Len(deletions) |->
                     [k \in 1..n |-> deletions[k].target]])
    ELSE [k \in 1..Len(deletions) |-> deletions[k].target]

\* "for candidate in deletions" and the delete call of one policy.
Deliver ==
    /\ p_pc = "planned"
    /\ p_deletions # <<>>
    /\ \E kind \in StorageKinds :
           /\ p_kind' = kind
           /\ p_received' = delete_requests(kind, p_deletions)
    /\ p_pc' = "delivered"
    /\ UNCHANGED <<p_backups, p_checkpoints, p_deletions, p_again>>
    /\ UNCHANGED <<cvars, mvars, kvars, rvars>>

PlannerNext == Plan \/ Replan \/ Deliver

PlannerSpec == PlannerInit /\ [][PlannerNext]_vars

\* ---------------------------------------------- merge_config specification
\* The command line and the config file: one of the four retention fields
\* takes every text, the others take the sample texts; or a required
\* setting is bad and every field takes a sample.
MergeInit ==
    /\ CycleIdle
    /\ CatalogIdle
    /\ RestoreIdle
    /\ p_pc = "input"
    /\ p_backups = <<>>
    /\ p_checkpoints = <<>>
    /\ p_deletions = <<>>
    /\ p_again = <<>>
    /\ p_kind = "none"
    /\ p_received = <<>>
    /\ m_pc = "args"
    /\ \E studied \in {"args_retention", "file_retention", "args_storage",
                       "file_storage", "required"} :
           /\ args_retention_checkpoints \in
                  IF studied = "args_retention" THEN Texts ELSE SampleTexts
           /\ file_retention_checkpoints \in
                  IF studied = "file_retention" THEN Texts ELSE SampleTexts
           /\ args_storage_uris \in EntryLists(studied = "args_storage")
           /\ file_storage_entries \in EntryLists(studied = "file_storage")
           /\ required \in IF studied = "required"
                           THEN {"poll_interval", "backup_dir"} ELSE {"ok"}
    /\ legacy_storage \in BOOLEAN
    /\ retention_value = <<>>
    /\ storage_entries = <<>>
    /\ merged_storages = <<>>

\* merge_config up to the required settings: the global checkpoint list from
\* the command line, else from the file, else empty; then poll_interval and
\* backup_dir are checked.
ParseRetention ==
    /\ m_pc = "args"
    /\ LET parsed == IF args_retention_checkpoints # NoText
                     THEN parse_duration_list(args_retention_checkpoints)
                     ELSE IF file_retention_checkpoints # NoText
                     THEN parse_duration_list(file_retention_checkpoints)
                     ELSE Parsed(<<>>)
       IN  IF parsed.ok /\ required = "ok"
           THEN /\ retention_value' = parsed.value
                /\ m_pc' = "retention"
           ELSE /\ retention_value' = retention_value
                /\ m_pc' = "error"
    /\ UNCHANGED <<args_retention_checkpoints, file_retention_checkpoints,
                   args_storage_uris, file_storage_entries, legacy_storage,
                   required, storage_entries, merged_storages>>
    /\ UNCHANGED <<cvars, pvars, kvars, rvars>>

\* The storage definitions: those of the command line, else those of the
\* file's storage.<name>.* groups, else the legacy storage_uri, whose
\* override is the file's retention_checkpoints.
CollectStorages ==
    /\ m_pc = "retention"
    /\ IF args_storage_uris # <<>>
       THEN /\ storage_entries' = args_storage_uris
            /\ m_pc' = "entries"
       ELSE IF legacy_storage /\ file_storage_entries # <<>>
       THEN /\ storage_entries' = storage_entries
            /\ m_pc' = "error"
       ELSE LET entries == IF legacy_storage
                           THEN <<file_retention_checkpoints>>
                           ELSE file_storage_entries
            IN  IF entries = <<>>
                THEN /\ storage_entries' = storage_entries
                     /\ m_pc' = "error"
                ELSE /\ storage_entries' = entries
                     /\ m_pc' = "entries"
    /\ UNCHANGED <<args_retention_checkpoints, file_retention_checkpoints,
                   args_storage_uris, file_storage_entries, legacy_storage,
                   required, retention_value, merged_storages>>
    /\ UNCHANGED <<cvars, pvars, kvars, rvars>>

\* The loop that builds a StoragePolicy from every storage definition.
BuildPolicies ==
    /\ m_pc = "entries"
    /\ LET resolved == [k \in 1..Len(storage_entries) |->
                           _resolve_retention_policy(storage_entries[k],
                                                     retention_value)]
       IN  IF \A k \in 1..Len(storage_entries) : resolved[k].ok
           THEN /\ merged_storages' =
                       [k \in 1..Len(storage_entries) |->
                           StoragePolicy(parse_storage(k), resolved[k].value)]
                /\ m_pc' = "merged"
           ELSE /\ merged_storages' = merged_storages
                /\ m_pc' = "error"
    /\ UNCHANGED <<args_retention_checkpoints, file_retention_checkpoints,
                   args_storage_uris, file_storage_entries, legacy_storage,
                   required, retention_value, storage_entries>>
    /\ UNCHANGED <<cvars, pvars, kvars, rvars>>

MergeNext == ParseRetention \/ CollectStorages \/ BuildPolicies

MergeSpec == MergeInit /\ [][MergeNext]_vars

\* ------------------------------------------------------------- the cycle
PolicyIndexes == 1..Len(storages)

Paths(entries) == {entries[k][2] : k \in 1..Len(entries)}

\* latest_backup.name of a non-empty listing.
LatestName(entries) == entries[Len(entries)][2]

\* Variant of the short-circuit that ignores the cursor.
no_new_backup_never(latest_name, cursor) == FALSE

\* "if last_uploaded and latest_backup.name == last_uploaded"
no_new_backup(latest_name, cursor) ==
    cursor # None /\ latest_name = cursor

\* Variant that reports a failed upload as success.
failed_upload_return_ok(cursor, latest_name) ==
    [code |-> 0, cursor |-> cursor]

\* Variant that moves the cursor to the archive whose upload failed.
failed_upload_return_advances(cursor, latest_name) ==
    [code |-> 1, cursor |-> latest_name]

\* "except Exception ...: return 1, last_uploaded"
failed_upload_return(cursor, latest_name) ==
    [code |-> 1, cursor |-> cursor]

\* Variant that leaves upload_backup after the first policy.
upload_loop_done_after_first(i, n) == TRUE

\* "for policy in config.storages" of upload_backup is over after policy i
\* of n.
upload_loop_done(i, n) == i = n

\* copy_to_local / upload_to_s3 / upload_to_gdrive on the files of one
\* destination: nothing in a dry run, nothing when the name is already
\* there, otherwise the archive is stored under its own name.
upload_to(files, name, dry) ==
    IF dry THEN files
    ELSE IF name \in files THEN files
    ELSE files \cup {name}

\* Variant without the existence check: the stored archive is overwritten.
upload_transfers_always(files, name, dry) == ~dry

\* Whether the upload reaches destination.mkdir and copy2 (upload_file,
\* files().create): not in a dry run, not when the name is already there.
upload_transfers(files, name, dry) ==
    ~dry /\ name \notin files

\* Variant that spares the oldest archive as well as the newest.
local_deletions_keep_oldest(entries) ==
    IF Len(entries) <= 1 THEN {} ELSE Paths(SubSeq(entries, 2, Len(entries) - 1))

\* "local_deletions = [path for _, path in backups[:-1]]"
local_deletions(entries) == Paths(AllButLast(entries))

\* Variant with the dry-run test inverted.
delete_old_backups_inverted(files, paths, dry) ==
    IF dry THEN files \ paths ELSE files

\* delete_old_backups / delete_s3_backups / delete_gdrive_backups on the
\* files of one directory or destination.
delete_old_backups(files, paths, dry) ==
    IF dry THEN files ELSE files \ paths

InitialDirs == {S \in SUBSET ArchiveNames : Cardinality(S) <= MaxInitial}

\* A stray non-conforming file lies in the backup directory and in every
\* configured destination, or in none of them.
Stray(present) == IF present THEN {OtherFile} ELSE {}

Targeted == {storages[i].target : i \in PolicyIndexes}

Init ==
    /\ storages \in StorageLists
    /\ dry_run \in BOOLEAN
    /\ loop \in BOOLEAN
    /\ \E stray \in BOOLEAN, dir \in InitialDirs, held \in [Destinations -> InitialDirs] :
           /\ \A d \in Destinations \ Targeted : held[d] = {}
           /\ Cardinality(held["A"]) + Cardinality(held["B"]) <= MaxInitial
           /\ local = dir \cup Stray(stray)
           /\ store = [d \in Destinations |->
                          IF d \in Targeted THEN held[d] \cup Stray(stray) ELSE {}]
    /\ last_uploaded = None
    /\ pc = "start"
    /\ cycle_backups = <<>>
    /\ idx = 0
    /\ exit_code = 0
    /\ outcome = "none"
    /\ cursor0 = None
    /\ local0 = {}
    /\ store0 = [d \in Destinations |-> {}]
    /\ uploaded = {}
    /\ local_pruned = FALSE
    /\ listed = {}
    /\ pruned = {}
    /\ decisions = {}
    /\ raised = "none"
    /\ written = {}
    /\ startup = "none"
    /\ main_return = -1
    /\ previous = "none"
    /\ p_pc = "input"
    /\ p_backups = <<>>
    /\ p_checkpoints = <<>>
    /\ p_deletions = <<>>
    /\ p_again = <<>>
    /\ p_kind = "none"
    /\ p_received = <<>>
    /\ MergeIdle
    /\ CatalogIdle
    /\ RestoreIdle

\* "return code, cursor" of process_backups, back in main's loop.
\* What main can meet before its loop: nothing wrong, a bad --log-level, a
\* config file that cannot be read or has no [backup] section, a
\* configuration merge_config rejects (a required field is missing), or a
\* backup directory that does not exist.
StartupConditions ==
    {"ok", "bad_log_level", "unreadable_config", "no_section",
     "missing_field", "no_backup_dir"}

\* main up to its loop. configure_logging, merge_config and the directory
\* test end main with status 2; read_config_file is called outside any try,
\* so its ConfigurationError leaves main as an exception.
Startup ==
    /\ pc = "start"
    /\ \E condition \in StartupConditions :
           /\ startup' = condition
           /\ IF condition \in {"bad_log_level", "missing_field", "no_backup_dir"}
              THEN pc' = "rejected" /\ main_return' = 2
              ELSE IF condition \in {"unreadable_config", "no_section"}
              THEN pc' = "start_crashed" /\ main_return' = main_return
              ELSE pc' = "call" /\ main_return' = main_return
    /\ UNCHANGED <<storages, dry_run, loop, local, store, last_uploaded,
                   cycle_backups, idx, exit_code, outcome, cursor0, local0,
                   store0, uploaded, local_pruned, listed, pruned,
                   written, raised, decisions, previous,
                   pvars, mvars, kvars, rvars>>

Return(code, cursor, how) ==
    /\ exit_code' = code
    /\ last_uploaded' = cursor
    /\ outcome' = how
    /\ pc' = "returned"

\* process_backups from its first line to the call of upload_backup.
StartCycle ==
    /\ pc = "call"
    /\ LET found == find_backups(local)
       IN  /\ cycle_backups' = found
           /\ IF found = <<>>
              THEN Return(0, last_uploaded, "empty") /\ idx' = 0
              ELSE IF no_new_backup(LatestName(found), last_uploaded)
              THEN Return(0, last_uploaded, "no_new") /\ idx' = 0
              ELSE /\ pc' = "upload"
                   /\ idx' = 1
                   /\ UNCHANGED <<exit_code, last_uploaded, outcome>>
    /\ cursor0' = last_uploaded
    /\ local0' = local
    /\ store0' = store
    /\ uploaded' = {}
    /\ local_pruned' = FALSE
    /\ listed' = {}
    /\ pruned' = {}
    /\ decisions' = {}
    /\ raised' = "none"
    /\ written' = {}
    /\ UNCHANGED <<storages, dry_run, loop, local, store, startup, main_return,
                   previous,
                   pvars, mvars, kvars, rvars>>

\* upload_backup: the upload to policy idx returns.
UploadOk ==
    /\ pc = "upload"
    /\ LET target == storages[idx].target
       IN  store' = [store EXCEPT ![target] =
                        upload_to(@, LatestName(cycle_backups), dry_run)]
    /\ uploaded' = uploaded \cup {idx}
    /\ LET target == storages[idx].target
           name == LatestName(cycle_backups)
       IN  written' = IF upload_transfers(store[target], name, dry_run)
                      THEN written \cup {<<target, name>>}
                      ELSE written
    /\ IF upload_loop_done(idx, Len(storages))
       THEN pc' = "local_prune" /\ idx' = 0
       ELSE pc' = "upload" /\ idx' = idx + 1
    /\ UNCHANGED <<storages, dry_run, loop, local, last_uploaded, cycle_backups,
                   exit_code, outcome, cursor0, local0, store0, local_pruned,
                   listed, pruned, raised, decisions, startup, main_return,
                   previous,
                   pvars, mvars, kvars, rvars>>

\* upload_backup: the upload to policy idx raises (no backend call is made
\* in a dry run); process_backups catches it and returns 1.
UploadFail ==
    /\ pc = "upload"
    /\ ~dry_run
    /\ LET result == failed_upload_return(last_uploaded, LatestName(cycle_backups))
       IN  Return(result.code, result.cursor, "upload_failed")
    /\ idx' = 0
    /\ raised' = "upload"
    /\ UNCHANGED <<storages, dry_run, loop, local, store, cycle_backups,
                   cursor0, local0, store0, uploaded, local_pruned, listed,
                   pruned, written, decisions, startup, main_return,
                   previous,
                   pvars, mvars, kvars, rvars>>

\* delete_old_backups(local_deletions, dry_run=config.dry_run)
LocalPrune ==
    /\ pc = "local_prune"
    /\ local' = delete_old_backups(local, local_deletions(cycle_backups), dry_run)
    /\ local_pruned' = TRUE
    /\ pc' = "remote_prune"
    /\ idx' = 1
    /\ UNCHANGED <<storages, dry_run, loop, store, last_uploaded, cycle_backups,
                   exit_code, outcome, cursor0, local0, store0, uploaded,
                   listed, pruned, written, raised, decisions, startup, main_return,
                   previous,
                   pvars, mvars, kvars, rvars>>

\* One iteration of "for policy in config.storages": list the backend, plan,
\* delete.
RemotePrune ==
    /\ pc = "remote_prune"
    /\ LET policy == storages[idx]
           storage_backups == find_backups(store[policy.target])
           deletions == determine_backups_to_delete(
                            storage_backups, policy.retention_checkpoints)
       IN  /\ store' = [store EXCEPT ![policy.target] =
                           delete_old_backups(@, Targets(deletions), dry_run)]
           /\ decisions' = decisions \cup ({idx} \X Targets(deletions))
    /\ listed' = listed \cup {idx}
    /\ pruned' = pruned \cup {idx}
    /\ IF idx = Len(storages)
       THEN pc' = "advance" /\ idx' = 0
       ELSE pc' = "remote_prune" /\ idx' = idx + 1
    /\ UNCHANGED <<storages, dry_run, loop, local, last_uploaded, cycle_backups,
                   exit_code, outcome, cursor0, local0, store0, uploaded,
                   local_pruned, written, raised, startup, main_return,
                   previous,
                   pvars, mvars, kvars, rvars>>

\* find_storage_backups raises: nothing catches it, main ends.
ListingFails ==
    /\ pc = "remote_prune"
    /\ pc' = "crashed"
    /\ raised' = "listing"
    /\ UNCHANGED <<storages, dry_run, loop, local, store, last_uploaded,
                   cycle_backups, idx, exit_code, outcome, cursor0, local0,
                   store0, uploaded, local_pruned, listed, pruned,
                   written, decisions, startup, main_return,
                   previous,
                   pvars, mvars, kvars, rvars>>

\* A delete call raises after the first j deletions of the policy went
\* through: nothing catches it, main ends.
DeletionFails ==
    /\ pc = "remote_prune"
    /\ ~dry_run
    /\ LET policy == storages[idx]
           storage_backups == find_backups(store[policy.target])
           deletions == determine_backups_to_delete(
                            storage_backups, policy.retention_checkpoints)
       IN  /\ deletions # <<>>
           /\ \E j \in 0..(Len(deletions) - 1) :
                  store' = [store EXCEPT ![policy.target] =
                               @ \ Targets(SubSeq(deletions, 1, j))]
           /\ decisions' = decisions \cup ({idx} \X Targets(deletions))
    /\ listed' = listed \cup {idx}
    /\ pc' = "crashed"
    /\ raised' = "deletion"
    /\ UNCHANGED <<storages, dry_run, loop, local, last_uploaded, cycle_backups,
                   idx, exit_code, outcome, cursor0, local0, store0, uploaded,
                   local_pruned, pruned, written, startup, main_return,
                   previous,
                   pvars, mvars, kvars, rvars>>

\* "return 0, latest_backup.name"
Advance ==
    /\ pc = "advance"
    /\ Return(0, LatestName(cycle_backups), "done")
    /\ UNCHANGED <<storages, dry_run, loop, local, store, cycle_backups, idx,
                   cursor0, local0, store0, uploaded, local_pruned, listed,
                   pruned, written, raised, decisions, startup, main_return,
                   previous,
                   pvars, mvars, kvars, rvars>>

\* The locals of the call that returned, and what was recorded about it, are
\* gone once main moves on.
ForgetCall ==
    /\ cycle_backups' = <<>>
    /\ idx' = 0
    /\ cursor0' = None
    /\ local0' = {}
    /\ store0' = [d \in Destinations |-> {}]
    /\ uploaded' = {}
    /\ local_pruned' = FALSE
    /\ listed' = {}
    /\ pruned' = {}
    /\ decisions' = {}
    /\ raised' = "none"
    /\ written' = {}

\* main: "if not config.loop: return exit_code"
MainExit ==
    /\ pc = "returned"
    /\ ~loop
    /\ pc' = "exited"
    /\ main_return' = exit_code
    /\ UNCHANGED <<storages, dry_run, loop, local, store, last_uploaded,
                   cycle_backups, idx, exit_code, outcome, cursor0, local0,
                   store0, uploaded, local_pruned, listed, pruned,
                   written, raised, decisions, startup, previous,
                   pvars, mvars, kvars, rvars>>

\* The process has ended with main's return after a completed cycle and is
\* run again on the same configuration, backup directory and destinations:
\* main starts over with no cursor.
Restart ==
    /\ pc = "exited"
    /\ outcome = "done"
    /\ pc' = "start"
    /\ previous' = outcome
    /\ last_uploaded' = None
    /\ exit_code' = 0
    /\ outcome' = "none"
    /\ startup' = "none"
    /\ main_return' = -1
    /\ ForgetCall
    /\ UNCHANGED <<storages, dry_run, loop, local, store, pvars, mvars, kvars, rvars>>

\* main: "time.sleep(config.poll_interval)"
MainSleep ==
    /\ pc = "returned"
    /\ loop
    /\ pc' = "sleep"
    /\ ForgetCall
    /\ UNCHANGED <<storages, dry_run, loop, local, store, last_uploaded,
                   exit_code, outcome, startup, main_return,
                   previous,
                   pvars, mvars, kvars, rvars>>

\* While main sleeps the server writes a new archive, newer than every
\* archive in the backup directory.
NewArchive ==
    /\ pc = "sleep"
    /\ \E t \in 0..MaxStamp :
           /\ \A n \in local : strptime_ok(n) => strptime(n) < t
           /\ local' = local \cup {ArchiveName(t)}
    /\ UNCHANGED <<storages, dry_run, loop, store, last_uploaded, pc,
                   cycle_backups, idx, exit_code, outcome, cursor0, local0,
                   store0, uploaded, local_pruned, listed, pruned,
                   written, raised, decisions, startup, main_return,
                   previous,
                   pvars, mvars, kvars, rvars>>

\* main: the sleep is over, "while True" calls process_backups again.
Wake ==
    /\ pc = "sleep"
    /\ pc' = "call"
    /\ UNCHANGED <<storages, dry_run, loop, local, store, last_uploaded,
                   cycle_backups, idx, exit_code, outcome, cursor0, local0,
                   store0, uploaded, local_pruned, listed, pruned,
                   written, raised, decisions, startup, main_return,
                   previous,
                   pvars, mvars, kvars, rvars>>

Next ==
    \/ Startup
    \/ StartCycle
    \/ UploadOk
    \/ UploadFail
    \/ LocalPrune
    \/ RemotePrune
    \/ ListingFails
    \/ DeletionFails
    \/ Advance
    \/ MainExit
    \/ Restart
    \/ MainSleep
    \/ NewArchive
    \/ Wake

Spec == Init /\ [][Next]_vars

\* ------------------------------------------------------- planner properties
Planned == p_pc \in {"planned", "replanned"}

\* C3: for every ascending backup list and every checkpoint list,
\* determine_backups_to_delete never schedules the newest (last) backup, and
\* for a list of length 0 or 1 it returns no deletions.
C3_NewestNeverScheduled ==
    Planned =>
        /\ Len(p_backups) <= 1 => p_deletions = <<>>
        /\ Len(p_backups) >= 1 =>
               p_backups[Len(p_backups)][2] \notin Targets(p_deletions)

\* Every other entry is scheduled, one of them as recent as the newest.
C3_Witness ==
    /\ p_pc = "planned"
    /\ Len(p_backups) >= 3
    /\ Len(p_deletions) = Len(p_backups) - 1
    /\ p_backups[Len(p_backups) - 1][1] = p_backups[Len(p_backups)][1]

\* The tier of an age as the claim words it: the smallest 0-based index i
\* with age <= checkpoints[i], or len(checkpoints) if there is none.
TierOf(age, checkpoints) ==
    IF \E i \in 1..Len(checkpoints) : age <= checkpoints[i]
    THEN (CHOOSE i \in 1..Len(checkpoints) :
             /\ age <= checkpoints[i]
             /\ \A j \in 1..(i - 1) : age > checkpoints[j]) - 1
    ELSE Len(checkpoints)

AgeOf(backups, k) == backups[Len(backups)][1] - backups[k][1]

\* Entry j has the slot key (i, floor(epoch_seconds / g)) of entry k, where
\* i is k's tier (i >= 1) and g = checkpoints[i-1].
SameSlotKey(backups, checkpoints, j, k) ==
    LET i == TierOf(AgeOf(backups, k), checkpoints)
        g == checkpoints[i]
    IN  /\ TierOf(AgeOf(backups, j), checkpoints) = i
        /\ backups[j][1] \div g = backups[k][1] \div g

\* C4: with a non-empty strictly increasing checkpoint list, a non-newest
\* backup is scheduled exactly when its age exceeds checkpoints[0] and a
\* non-newest backup visited earlier in the newest-to-oldest walk has the
\* same slot key.
C4_SlotDeduplication ==
    (Planned /\ p_checkpoints # <<>> /\ StrictlyIncreasing(p_checkpoints)) =>
        \A k \in 1..(Len(p_backups) - 1) :
            (p_backups[k][2] \in Targets(p_deletions))
            <=> /\ AgeOf(p_backups, k) > p_checkpoints[1]
                /\ \E j \in (k + 1)..(Len(p_backups) - 1) :
                       SameSlotKey(p_backups, p_checkpoints, j, k)

\* Three tiers; one backup is scheduled in a middle tier and its neighbour
\* in the next window of the same tier is kept.
C4_Witness ==
    /\ p_pc = "planned"
    /\ Len(p_checkpoints) >= 2
    /\ StrictlyIncreasing(p_checkpoints)
    /\ \E k \in 1..(Len(p_backups) - 1) :
           /\ p_backups[k][2] \in Targets(p_deletions)
           /\ TierOf(AgeOf(p_backups, k), p_checkpoints) = 2
    /\ \E k \in 1..(Len(p_backups) - 1) :
           /\ p_backups[k][2] \notin Targets(p_deletions)
           /\ AgeOf(p_backups, k) > p_checkpoints[1]

\* C5: with a non-empty checkpoint list, every backup whose age is at most
\* checkpoints[0] is retained.
C5_FirstTierRetained ==
    (Planned /\ p_checkpoints # <<>>) =>
        \A k \in 1..Len(p_backups) :
            AgeOf(p_backups, k) <= p_checkpoints[1]
                => p_backups[k][2] \notin Targets(p_deletions)

\* Two backups exactly checkpoints[0] old share an epoch window and both
\* stay, next to an older backup.
C5_Witness ==
    /\ p_pc = "planned"
    /\ p_checkpoints # <<>>
    /\ Len(p_backups) >= 4
    /\ AgeOf(p_backups, 1) > p_checkpoints[1]
    /\ \E j, k \in 1..(Len(p_backups) - 1) :
           /\ j < k
           /\ AgeOf(p_backups, j) = p_checkpoints[1]
           /\ AgeOf(p_backups, k) = p_checkpoints[1]

\* C6: with no checkpoints and at least two backups, exactly every backup
\* except the newest is scheduled, one decision per entry.
C6_KeepOnlyLatest ==
    (Planned /\ p_checkpoints = <<>> /\ Len(p_backups) >= 2) =>
        /\ Len(p_deletions) = Len(p_backups) - 1
        /\ \A k \in 1..(Len(p_backups) - 1) :
               p_deletions[k].target = p_backups[k][2]

\* An entry with the newest timestamp is among the scheduled ones.
C6_Witness ==
    /\ p_pc = "planned"
    /\ p_checkpoints = <<>>
    /\ Len(p_backups) >= 3
    /\ p_backups[Len(p_backups) - 1][1] = p_backups[Len(p_backups)][1]
    /\ p_backups[Len(p_backups) - 1][2] \in Targets(p_deletions)

\* C7: running the planner again on the backups the first run retained,
\* with the same checkpoints, returns no deletions.
C7_PruningStable ==
    p_pc = "replanned" => p_again = <<>>

\* The first run thinned a tiered list and left at least three backups.
C7_Witness ==
    /\ p_pc = "replanned"
    /\ Len(p_checkpoints) >= 2
    /\ p_deletions # <<>>
    /\ Len(Retained(p_backups, p_deletions)) >= 3

\* --------------------------------------------------------- cycle properties
Returned(how) == pc = "returned" /\ outcome = how

ArchivesIn(files) == {n \in files : strptime_ok(n)}

\* C1: if the upload of the latest archive fails for any one policy, the
\* cycle returns status 1, the backup directory holds the archives it held
\* before the cycle, the returned cursor is the cursor passed in, and no
\* backend was listed or lost an archive in that cycle.
C1_FailedUploadAborts ==
    Returned("upload_failed") =>
        /\ exit_code = 1
        /\ local = local0
        /\ last_uploaded = cursor0
        /\ \A d \in Destinations : store0[d] \subseteq store[d]
        /\ listed = {}
        /\ pruned = {}
        /\ ~local_pruned

\* The upload to the second policy failed after the first one went through,
\* with older archives in the backup directory and in the first backend.
C1_Witness ==
    /\ Returned("upload_failed")
    /\ uploaded = {1}
    /\ Len(cycle_backups) >= 2
    /\ store # store0
    /\ Cardinality(ArchivesIn(store0["A"])) >= 2

\* C2: the mutating steps of a cycle come in the order upload, local prune,
\* remote prune, cursor advance: nothing is deleted locally before every
\* policy's upload has returned, no backend loses an archive before that and
\* before the local prune, and the cursor moves only after every policy's
\* pruning has run.
C2_StepOrder ==
    [][ /\ ((local \ local' # {}) \/ (local_pruned' /\ ~local_pruned))
            => uploaded = PolicyIndexes
        /\ ((\E d \in Destinations : store[d] \ store'[d] # {})
               \/ (pruned' \ pruned # {}))
            => (uploaded = PolicyIndexes /\ local_pruned)
        /\ (last_uploaded' # last_uploaded)
            => (uploaded = PolicyIndexes /\ local_pruned /\ pruned = PolicyIndexes)
      ]_vars

\* A two-policy cycle that deleted locally, pruned a backend and advanced
\* the cursor.
C2_Witness ==
    /\ Returned("done")
    /\ Len(storages) = 2
    /\ local0 \ local # {}
    /\ \E d \in Destinations : store0[d] \ store[d] # {}
    /\ last_uploaded # cursor0

\* C8: a cycle started with the cursor equal to the name of the newest local
\* archive returns 0 with the cursor, the backup directory and every backend
\* unchanged and without an upload, a local deletion, a listing or a pruning;
\* and right after a successful cycle the cursor is the name of the newest
\* local archive, so a second cycle over the unchanged directory is such a
\* cycle.
C8_NoNewBackupIsNoOp ==
    /\ [](Returned("done") =>
             /\ find_backups(local) # <<>>
             /\ last_uploaded = LatestName(find_backups(local)))
    /\ [][ (/\ pc = "call"
            /\ find_backups(local) # <<>>
            /\ last_uploaded = LatestName(find_backups(local)))
           => /\ pc' = "returned"
              /\ exit_code' = 0
              /\ outcome' = "no_new"
              /\ UNCHANGED <<local, store, last_uploaded>>
              /\ uploaded' = {}
              /\ listed' = {}
              /\ pruned' = {}
              /\ ~local_pruned'
         ]_vars

\* A later cycle of a loop returned without a new backup although a
\* destination does not hold the archive the cursor names.
C8_Witness ==
    /\ Returned("no_new")
    /\ ~dry_run
    /\ last_uploaded # None
    /\ \E d \in Targeted : last_uploaded \notin store[d]

\* C9: after a successful non-dry-run cycle that uploaded a new latest
\* archive, the backup directory holds exactly one conforming archive, the
\* latest one, whatever the retention checkpoints.
C9_LocalKeepsOnlyLatest ==
    (Returned("done") /\ ~dry_run) =>
        ArchivesIn(local) = {LatestName(cycle_backups)}

\* Two older archives were deleted next to a stray file, under policies
\* that all carry checkpoints.
C9_Witness ==
    /\ Returned("done")
    /\ ~dry_run
    /\ Cardinality(ArchivesIn(local0)) >= 3
    /\ OtherFile \in local
    /\ \A i \in PolicyIndexes : storages[i].retention_checkpoints # <<>>

\* C10: the cursor starts empty and changes only at the end of a cycle in
\* which the upload to every policy returned without error; its new value is
\* the name of the latest archive of that cycle.  A cycle that found no
\* archive, found no new archive or failed to upload keeps the cursor.  A
\* process started after the last one ended has an empty cursor again.
C10_CursorDiscipline ==
    /\ [](outcome = "none" => last_uploaded = None)
    /\ []((Returned("empty") \/ Returned("no_new") \/ Returned("upload_failed"))
             => last_uploaded = cursor0)
    /\ [](Returned("done") => last_uploaded = LatestName(find_backups(local0)))
    /\ [][ (last_uploaded' # last_uploaded)
           => \/ /\ pc = "advance"
                 /\ uploaded = PolicyIndexes
                 /\ last_uploaded' = LatestName(find_backups(local0))
              \/ /\ pc = "exited"
                 /\ pc' = "start"
                 /\ last_uploaded' = None
         ]_vars

\* The cursor moved from one archive name to a newer one.
C10_Witness ==
    /\ Returned("done")
    /\ cursor0 # None
    /\ last_uploaded # cursor0
    /\ Len(storages) = 2

\* C11: when the destination already holds an archive named like the latest
\* one, the upload writes nothing there, leaves the destination as it is and
\* returns like any other upload, so the cycle moves on; a cycle that moved
\* on to its end has pruned locally and remotely, advanced the cursor and
\* returned 0.
C11_ExistingArchiveSkipped ==
    /\ [][ (/\ pc = "upload"
            /\ uploaded' # uploaded
            /\ LatestName(cycle_backups) \in store[storages[idx].target])
           => /\ store' = store
              /\ written' = written
              /\ idx \in uploaded'
              /\ pc' \in {"upload", "local_prune"}
         ]_vars
    /\ [](Returned("done") =>
             /\ exit_code = 0
             /\ local_pruned
             /\ pruned = PolicyIndexes
             /\ last_uploaded = LatestName(cycle_backups))

\* Every destination already held the latest archive: nothing was written,
\* yet the cycle deleted locally, pruned a backend and advanced the cursor.
C11_Witness ==
    /\ Returned("done")
    /\ ~dry_run
    /\ written = {}
    /\ local0 \ local # {}
    /\ \E d \in Destinations : store0[d] \ store[d] # {}
    /\ last_uploaded # cursor0

\* What policy i alone makes of its backend in a cycle that really uploads:
\* the contents before the cycle plus the latest archive, minus what
\* determine_backups_to_delete returns for the listing of that and the
\* policy's checkpoints.
ExpectedAfter(i) ==
    LET with_latest == store0[storages[i].target] \cup {LatestName(cycle_backups)}
        deletions == determine_backups_to_delete(
                         find_backups(with_latest), storages[i].retention_checkpoints)
    IN  with_latest \ Targets(deletions)

\* C12: after a successful non-dry-run cycle every policy's backend
\* holds its contents before the cycle plus the latest archive minus exactly
\* the deletions planned for that policy.
C12_EveryPolicyBackendAsPlanned ==
    (Returned("done") /\ ~dry_run) =>
        \A i \in PolicyIndexes : store[storages[i].target] = ExpectedAfter(i)

(***************************************************************************)
(* C13: a failed deletion on one policy does not abort the cycle: the      *)
(* call goes on to the remaining policies and returns with the cursor      *)
(* advanced, so a call in which a deletion raised is never left by the     *)
(* exception.                                                              *)
(***************************************************************************)
C13_DeletionFailureTolerated ==
    raised = "deletion" =>
        /\ pc \in {"remote_prune", "advance", "returned", "sleep", "exited"}
        /\ (pc = "returned" =>
                /\ pruned \cup {idx} = PolicyIndexes
                /\ last_uploaded = LatestName(cycle_backups))

(***************************************************************************)
(* C14: in loop mode no error raised inside a cycle (upload, listing or    *)
(* deletion) leaves process_backups or ends the loop of main.              *)
(***************************************************************************)
C14_LoopSurvivesCycleErrors ==
    (loop /\ raised \in {"upload", "listing", "deletion"}) => pc # "crashed"

(***************************************************************************)
(* C15: a call in which an upload or a listing failed, for whichever       *)
(* policy, ends with the local directory and every destination holding     *)
(* what they held when the call began.                                     *)
(***************************************************************************)
C15_TransientErrorLeavesStateUnchanged ==
    raised \in {"upload", "listing"} =>
        /\ local = local0
        /\ store = store0

\* What the destination of policy i holds after the cycle when policy i is
\* the only policy configured: its upload, then its listing, plan and
\* deletions.
AloneAfter(i) ==
    LET policy == storages[i]
        after_upload == upload_to(store0[policy.target],
                                  LatestName(cycle_backups), dry_run)
        deletions == determine_backups_to_delete(
                         find_backups(after_upload), policy.retention_checkpoints)
    IN  delete_old_backups(after_upload, Targets(deletions), dry_run)

(***************************************************************************)
(* C16: policies are pruned independently: after a completed cycle the     *)
(* backups retained at each policy's destination are those the cycle       *)
(* retains there when that policy is configured alone, whatever the other  *)
(* policies are, two policies on one destination included.                 *)
(***************************************************************************)
C16_PoliciesPrunedIndependently ==
    Returned("done") =>
        \A i \in PolicyIndexes :
            ArchivesIn(store[storages[i].target]) = ArchivesIn(AloneAfter(i))

\* Some policy's plan on what its destination holds is not empty.
SomePlannedDeletion ==
    \E i \in PolicyIndexes :
        determine_backups_to_delete(find_backups(store[storages[i].target]),
                                    storages[i].retention_checkpoints) # <<>>

(***************************************************************************)
(* C17: a dry-run call of process_backups mutates nothing: at every        *)
(* position from its first step to its end the backup directory and every  *)
(* destination hold exactly the files they held when the call began, and   *)
(* no upload created a directory or wrote a file.                          *)
(***************************************************************************)
C17_DryRunMutatesNothing ==
    (dry_run /\ pc \in {"upload", "local_prune", "remote_prune", "advance",
                        "returned", "crashed", "exited"}) =>
        /\ local = local0
        /\ store = store0
        /\ written = {}

\* A dry-run cycle ran to its end although it had an archive to upload that a
\* destination lacks, older local archives to delete and a non-empty plan.
C17_Witness ==
    /\ dry_run
    /\ Returned("done")
    /\ pruned = PolicyIndexes
    /\ Len(cycle_backups) >= 2
    /\ \E i \in PolicyIndexes :
           LatestName(cycle_backups) \notin store[storages[i].target]
    /\ SomePlannedDeletion

\* The destinations as a real (non-dry-run) call from the same start leaves
\* them after upload_backup: the latest archive uploaded for every policy.
RealAfterUploads ==
    [d \in Destinations |->
        IF \E i \in PolicyIndexes : storages[i].target = d
        THEN upload_to(store0[d], LatestName(cycle_backups), FALSE)
        ELSE store0[d]]

\* The plan the real call makes for policy i on the destinations st.
RealPlan(st, i) ==
    determine_backups_to_delete(find_backups(st[storages[i].target]),
                                storages[i].retention_checkpoints)

\* The destinations as the real call has them when policy i is listed: the
\* policies before i have been listed, planned and pruned in order.
RECURSIVE RealBeforePolicy(_)
RealBeforePolicy(i) ==
    IF i = 1 THEN RealAfterUploads
    ELSE LET st == RealBeforePolicy(i - 1)
         IN  [st EXCEPT ![storages[i - 1].target] =
                 delete_old_backups(@, Targets(RealPlan(st, i - 1)), FALSE)]

RealDecisions(i) == Targets(RealPlan(RealBeforePolicy(i), i))

DecisionsOf(i) == {d[2] : d \in {e \in decisions : e[1] = i}}

(***************************************************************************)
(* C18: in every completed call, dry-run or not, the deletion decisions    *)
(* planned for each policy are those a real call plans for it from the     *)
(* same backup directory, destinations and cursor.                         *)
(***************************************************************************)
C18_DryRunPlansAsRealRun ==
    Returned("done") =>
        \A i \in PolicyIndexes : DecisionsOf(i) = RealDecisions(i)

\* The same statement for the calls that are real: the reference the dry-run
\* decisions are compared with is what the real call itself decides.
RealRunPlansAsRealRun ==
    (Returned("done") /\ ~dry_run) =>
        \A i \in PolicyIndexes : DecisionsOf(i) = RealDecisions(i)

\* The seconds a text's non-empty parts stand for, taken part by part.
SecondsOf(text) ==
    LET parts == SelectSeq(text.parts, LAMBDA p : p # EmptyPart)
    IN  [k \in 1..Len(parts) |-> parts[k].amount * units(parts[k].suffix)]

\* A text that reads as a non-empty list of positive durations which is not
\* strictly increasing.
BadlyOrdered(text) ==
    /\ text.kind = "list"
    /\ \A k \in 1..Len(text.parts) :
           \/ text.parts[k] = EmptyPart
           \/ /\ text.parts[k].digits
              /\ text.parts[k].suffix \in {"", "s", "m"}
              /\ text.parts[k].amount > 0
    /\ SecondsOf(text) # <<>>
    /\ ~StrictlyIncreasing(SecondsOf(text))

\* The text merge_config parses as the global default.
DefaultText ==
    IF args_retention_checkpoints # NoText THEN args_retention_checkpoints
    ELSE file_retention_checkpoints

(***************************************************************************)
(* C19: whenever merge_config returns a configuration, every policy's      *)
(* checkpoint list is positive and strictly increasing, whether it came    *)
(* from the global default (command line or file), a per-storage override  *)
(* or the legacy storage_uri; and no text it read for the default or for   *)
(* a storage definition was a non-empty list out of order: such a text     *)
(* makes merge_config raise ConfigurationError instead of returning.       *)
(***************************************************************************)
C19_CheckpointListsValidated ==
    m_pc = "merged" =>
        /\ \A i \in 1..Len(merged_storages) :
               LET checkpoints == merged_storages[i].retention_checkpoints
               IN  /\ \A k \in 1..Len(checkpoints) : checkpoints[k] > 0
                   /\ StrictlyIncreasing(checkpoints)
        /\ ~BadlyOrdered(DefaultText)
        /\ \A k \in 1..Len(storage_entries) : ~BadlyOrdered(storage_entries[k])

\* A configuration returned from a legacy storage_uri whose policy carries
\* the file's list, converted to seconds, and not the command line's default.
C19_Witness ==
    /\ m_pc = "merged"
    /\ legacy_storage
    /\ args_storage_uris = <<>>
    /\ args_retention_checkpoints # NoText
    /\ Len(merged_storages[1].retention_checkpoints) = 2
    /\ merged_storages[1].retention_checkpoints # retention_value
    /\ merged_storages[1].retention_checkpoints[2] = 60

\* main met a configuration or startup error.
StartupError == startup \notin {"none", "ok"}

(***************************************************************************)
(* C20: run once, main returns 0 when its cycle succeeded or had nothing   *)
(* to do and 1 when the cycle's upload failed; and whenever it met a       *)
(* configuration or startup error (a missing required field, a config      *)
(* file that cannot be read or lacks the [backup] section, a backup        *)
(* directory that does not exist) it has returned 2 and run no cycle.      *)
(***************************************************************************)
C20_RunOnceExitStatus ==
    ~loop =>
        /\ pc = "exited" =>
               main_return = IF outcome = "upload_failed" THEN 1 ELSE 0
        /\ StartupError =>
               /\ main_return = 2
               /\ outcome = "none"
               /\ cycle_backups = <<>>

\* The part of the statement about main's status after a cycle, and about
\* the startup errors main handles itself.
RunOnceStatusOfHandledCases ==
    ~loop =>
        /\ pc = "exited" =>
               main_return = IF outcome = "upload_failed" THEN 1 ELSE 0
        /\ startup \in {"bad_log_level", "missing_field", "no_backup_dir"} =>
               /\ main_return = 2
               /\ outcome = "none"
               /\ cycle_backups = <<>>

\* ------------------------------------------------- loop-mode specification
\* main in loop mode, not in dry-run, with backends whose listing and delete
\* calls succeed: the only error a cycle meets is a failed upload. It starts
\* with no archive but possibly the oldest one, locally and stored.
LiveInit ==
    /\ Init
    /\ loop
    /\ ~dry_run
    /\ OtherFile \notin local
    /\ local \subseteq {ArchiveName(0)}
    /\ \A d \in Destinations : store[d] \subseteq {ArchiveName(0)}

\* Latest stamp of the archives the server writes while this loop runs.
MaxArrival == 1

\* NewArchive, for the archives stamped up to MaxArrival.
EarlyArchive ==
    /\ NewArchive
    /\ \A n \in local' : n.stamp <= MaxArrival

LiveNext ==
    \/ Startup
    \/ StartCycle
    \/ UploadOk
    \/ UploadFail
    \/ LocalPrune
    \/ RemotePrune
    \/ Advance
    \/ MainSleep
    \/ EarlyArchive
    \/ Wake

\* The upload for policy i succeeds.
UploadOkFor(i) == UploadOk /\ idx = i

\* A step of main or of process_backups other than an upload.
MainStep ==
    \/ Startup
    \/ StartCycle
    \/ LocalPrune
    \/ RemotePrune
    \/ Advance
    \/ MainSleep
    \/ Wake

\* main is single-threaded and every call it makes returns, so its next step
\* is taken once it is due, the end of the sleep included; the server may or
\* may not write new archives; uploads eventually stop failing: an upload
\* that is attempted again and again eventually succeeds, for each policy.
LiveFairness ==
    /\ WF_vars(MainStep)
    /\ \A i \in 1..2 : SF_vars(UploadOkFor(i))

LiveSpec == LiveInit /\ [][LiveNext]_vars /\ LiveFairness

\* The backup directory holds an archive.
HasArchive == find_backups(local) # <<>>

\* Every policy's destination holds the latest archive of the backup directory.
LatestEverywhere ==
    /\ HasArchive
    /\ \A i \in PolicyIndexes :
           LatestName(find_backups(local)) \in store[storages[i].target]

\* The cursor names the latest archive of the backup directory.
CursorAtLatest ==
    /\ HasArchive
    /\ last_uploaded = LatestName(find_backups(local))

AgedBetween(lo, hi, bounded) ==
    {k \in 1..(Len(p_backups) - 1) :
        /\ AgeOf(p_backups, k) > lo
        /\ bounded => AgeOf(p_backups, k) <= hi}

\* Every epoch-anchored window of the given size that holds an entry of the
\* group holds exactly one retained entry of the group.
OnePerWindow(group, size) ==
    \A k \in group :
        Cardinality({j \in group :
                        /\ p_backups[j][1] \div size = p_backups[k][1] \div size
                        /\ p_backups[j][2] \notin Targets(p_deletions)}) = 1

\* A list of three checkpoints [day, week, month].
ThreeTiers == Len(p_checkpoints) = 3 /\ StrictlyIncreasing(p_checkpoints)

\* Every backup aged at most the first checkpoint is retained.
WithinDayRetained ==
    \A k \in 1..Len(p_backups) :
        AgeOf(p_backups, k) <= p_checkpoints[1] =>
            p_backups[k][2] \notin Targets(p_deletions)

(***************************************************************************)
(* C22: with checkpoints [day, week, month] the retained set holds every   *)
(* backup aged at most a day, exactly one backup per daily window among    *)
(* those aged between a day and a week, and exactly one backup per weekly  *)
(* window among all those older than a week, those older than a month      *)
(* included.                                                               *)
(***************************************************************************)
C22_WeeklyBeyondAWeek ==
    (Planned /\ ThreeTiers) =>
        /\ WithinDayRetained
        /\ OnePerWindow(AgedBetween(p_checkpoints[1], p_checkpoints[2], TRUE),
                        p_checkpoints[1])
        /\ OnePerWindow(AgedBetween(p_checkpoints[2], 0, FALSE),
                        p_checkpoints[2])

(***************************************************************************)
(* C22 (amended): the same, with exactly one backup per weekly window      *)
(* among those aged between a week and a month, and exactly one per        *)
(* monthly window among those older than a month.                          *)
(***************************************************************************)
C22_WeeklyUpToAMonth ==
    (Planned /\ ThreeTiers) =>
        /\ WithinDayRetained
        /\ OnePerWindow(AgedBetween(p_checkpoints[1], p_checkpoints[2], TRUE),
                        p_checkpoints[1])
        /\ OnePerWindow(AgedBetween(p_checkpoints[2], p_checkpoints[3], TRUE),
                        p_checkpoints[2])
        /\ OnePerWindow(AgedBetween(p_checkpoints[3], 0, FALSE),
                        p_checkpoints[3])

\* Two backups older than a month in one monthly window but in two weekly
\* windows, the older one scheduled; and a backup within the last day.
C22_Witness ==
    /\ p_pc = "planned"
    /\ ThreeTiers
    /\ \E k \in AgedBetween(p_checkpoints[3], 0, FALSE) :
           /\ p_backups[k][2] \in Targets(p_deletions)
           /\ \E j \in AgedBetween(p_checkpoints[3], 0, FALSE) :
                  /\ p_backups[j][1] \div p_checkpoints[3]
                         = p_backups[k][1] \div p_checkpoints[3]
                  /\ p_backups[j][1] \div p_checkpoints[2]
                         # p_backups[k][1] \div p_checkpoints[2]
    /\ \E m \in 1..(Len(p_backups) - 1) :
           AgeOf(p_backups, m) <= p_checkpoints[1]

(***************************************************************************)
(* C23: in the configuration merge_config returns, the command line wins   *)
(* over the file: the global checkpoint list is the one of                 *)
(* --retention-checkpoints when given, the storages are those of --storage *)
(* when given, and with --retention-checkpoints given a storage defined by *)
(* the file's legacy storage_uri carries the command line's checkpoints.   *)
(***************************************************************************)
C23_CommandLineTakesPrecedence ==
    m_pc = "merged" =>
        /\ args_retention_checkpoints # NoText =>
               retention_value =
                   parse_duration_list(args_retention_checkpoints).value
        /\ args_storage_uris # <<>> => storage_entries = args_storage_uris
        /\ (/\ args_retention_checkpoints # NoText
            /\ args_storage_uris = <<>>
            /\ legacy_storage) =>
               merged_storages[1].retention_checkpoints =
                   parse_duration_list(args_retention_checkpoints).value

\* The precedence rules that do not involve the legacy storage_uri.
CommandLinePrecedenceElsewhere ==
    m_pc = "merged" =>
        /\ args_retention_checkpoints # NoText =>
               retention_value =
                   parse_duration_list(args_retention_checkpoints).value
        /\ args_storage_uris # <<>> => storage_entries = args_storage_uris

\* The process runs again after a process whose cycle completed, not in
\* dry-run; the backup directory is as that cycle left it.
RestartedAfterSuccess == previous = "done" /\ ~dry_run

(***************************************************************************)
(* C24: a restart is safe: in the cycle run with an empty cursor after a   *)
(* successful non-dry-run cycle, on the same backup directory, the upload  *)
(* is attempted for every policy but transfers nothing, nothing is deleted *)
(* in the backup directory or at any destination, and the call returns 0   *)
(* with the cursor again at the latest archive's name.                     *)
(***************************************************************************)
C24_RestartIsSafe ==
    RestartedAfterSuccess =>
        /\ written = {}
        /\ pc \in {"upload", "local_prune", "remote_prune", "advance",
                   "returned", "crashed", "exited"} =>
               /\ local = local0
               /\ store = store0
        /\ (pc = "returned" /\ raised = "none") =>
               /\ outcome = "done"
               /\ exit_code = 0
               /\ uploaded = PolicyIndexes
               /\ last_uploaded = LatestName(cycle_backups)

\* Some destination holds an archive stamped later than every archive of the
\* backup directory.
LaterStampedStored ==
    \E d \in Destinations : \E n \in ArchivesIn(store[d]) :
        \A m \in ArchivesIn(local) : strptime(m) < strptime(n)

\* The same statement for the restarts where no destination holds an archive
\* stamped later than the backup directory's latest.
RestartIsSafeWithoutLaterStamps ==
    (RestartedAfterSuccess /\ ~LaterStampedStored) =>
        /\ written = {}
        /\ pc \in {"upload", "local_prune", "remote_prune", "advance",
                   "returned", "crashed", "exited"} =>
               /\ local = local0
               /\ store = store0
        /\ (pc = "returned" /\ raised = "none") =>
               /\ outcome = "done"
               /\ exit_code = 0
               /\ uploaded = PolicyIndexes
               /\ last_uploaded = LatestName(cycle_backups)

(***************************************************************************)
(* C30: at the end of every successful non-dry-run cycle the archive that  *)
(* was uploaded, the newest of the backup directory, is held by every      *)
(* policy's destination: the cycle's own pruning never deletes it,         *)
(* whatever the destination held before, archives with later timestamps    *)
(* included, and whatever the checkpoints.                                 *)
(***************************************************************************)
C30_UploadedArchiveSurvives ==
    (Returned("done") /\ ~dry_run) =>
        \A i \in PolicyIndexes :
            LatestName(cycle_backups) \in store[storages[i].target]

\* The same statement for the cycles that begin with no destination holding
\* an archive stamped later than the uploaded one.
UploadedArchiveSurvivesWithoutLaterStamps ==
    (Returned("done") /\ ~dry_run
        /\ \A d \in Destinations : \A n \in ArchivesIn(store0[d]) :
               strptime(n) <= strptime(LatestName(cycle_backups))) =>
        \A i \in PolicyIndexes :
            LatestName(cycle_backups) \in store[storages[i].target]

\* ---------------------------------------------------- catalog specification
\* A name of the form YYYY-MM-DD-HH-MM-SS.zip.
MatchesPattern(name) == name.kind = "archive"

\* A backup directory: archives, the file with another name, and unpadded
\* names, none with the timestamp of another file of the directory.
CatalogDirs ==
    {S \in SUBSET (FileNames \cup {UnpaddedName(t) : t \in 0..MaxStamp}) :
        \A t \in 0..MaxStamp : ~(ArchiveName(t) \in S /\ UnpaddedName(t) \in S)}

CatalogInit ==
    /\ CycleIdle
    /\ MergeIdle
    /\ RestoreIdle
    /\ p_pc = "input"
    /\ p_backups = <<>>
    /\ p_checkpoints = <<>>
    /\ p_deletions = <<>>
    /\ p_again = <<>>
    /\ p_kind = "none"
    /\ p_received = <<>>
    /\ k_pc = "files"
    /\ k_files \in CatalogDirs
    /\ k_found = <<>>
    /\ k_left = {}

\* process_backups: "backups = find_backups(config.backup_dir)"
Catalog ==
    /\ k_pc = "files"
    /\ k_found' = find_backups(k_files)
    /\ k_pc' = "found"
    /\ UNCHANGED <<k_files, k_left>>
    /\ UNCHANGED <<cvars, pvars, mvars, rvars>>

\* process_backups: the local deletions of a real cycle whose upload
\* succeeded.
PruneCatalogued ==
    /\ k_pc = "found"
    /\ k_left' = delete_old_backups(k_files, local_deletions(k_found), FALSE)
    /\ k_pc' = "pruned"
    /\ UNCHANGED <<k_files, k_found>>
    /\ UNCHANGED <<cvars, pvars, mvars, rvars>>

CatalogNext == Catalog \/ PruneCatalogued

CatalogSpec == CatalogInit /\ [][CatalogNext]_vars

(***************************************************************************)
(* C25: a file whose name is not of the form YYYY-MM-DD-HH-MM-SS.zip is    *)
(* invisible to the cycle: it is not among the backups found, the backups  *)
(* found and the latest of them are those of the directory without it, and *)
(* the cycle's deletions leave it in place.                                *)
(***************************************************************************)
C25_OtherNamesInvisible ==
    k_pc = "pruned" =>
        /\ \A n \in k_files : ~MatchesPattern(n) =>
               /\ n \notin Paths(k_found)
               /\ n \in k_left
        /\ k_found = find_backups({n \in k_files : MatchesPattern(n)})

\* The same statement for the names strptime does not read as a timestamp.
UnparsedNamesInvisible ==
    k_pc = "pruned" =>
        /\ \A n \in k_files : ~strptime_ok(n) =>
               /\ n \notin Paths(k_found)
               /\ n \in k_left
        /\ k_found = find_backups({n \in k_files : strptime_ok(n)})

\* In the cycle, the file with another name stays where it is, in the backup
\* directory and at every destination, through every step.
OtherFileUntouched ==
    [][ /\ (OtherFile \in local <=> OtherFile \in local')
        /\ \A d \in Destinations :
               OtherFile \in store[d] <=> OtherFile \in store'[d] ]_vars

\* Two entries of an ascending listing, both older than checkpoints[0]
\* relative to the listing's newest entry, with one slot key.
SlotShared(listing, checkpoints) ==
    \E j, k \in 1..(Len(listing) - 1) :
        /\ j < k
        /\ AgeOf(listing, j) > checkpoints[1]
        /\ AgeOf(listing, k) > checkpoints[1]
        /\ SameSlotKey(listing, checkpoints, j, k)

(***************************************************************************)
(* C28: after every successful non-dry-run cycle, first or later, no       *)
(* policy's destination holds two backups that are both older than the     *)
(* policy's checkpoints[0] relative to the destination's newest backup and *)
(* have the same slot key (tier, epoch window of the tier's granularity).  *)
(***************************************************************************)
C28_OneBackupPerSlot ==
    (Returned("done") /\ ~dry_run) =>
        \A i \in PolicyIndexes :
            storages[i].retention_checkpoints # <<>> =>
                ~SlotShared(find_backups(store[storages[i].target]),
                            storages[i].retention_checkpoints)

\* A later cycle of a loop, after a new archive arrived: a tiered policy's
\* destination held two backups in one slot after the upload, one of them was
\* deleted, and three backups remain.
C28_Witness ==
    /\ Returned("done")
    /\ ~dry_run
    /\ cursor0 # None
    /\ \E i \in PolicyIndexes :
           /\ storages[i].retention_checkpoints # <<>>
           /\ DecisionsOf(i) # {}
           /\ SlotShared(find_backups(store0[storages[i].target]
                                          \cup {LatestName(cycle_backups)}),
                         storages[i].retention_checkpoints)
           /\ Cardinality(ArchivesIn(store[storages[i].target])) >= 3

\* The elements of a sequence in order of first appearance.
RECURSIVE FirstSeen(_)
FirstSeen(seq) ==
    IF seq = <<>> THEN <<>>
    ELSE LET rest == FirstSeen(SubSeq(seq, 1, Len(seq) - 1))
             last == seq[Len(seq)]
         IN  IF \E k \in 1..Len(rest) : rest[k] = last
             THEN rest ELSE Append(rest, last)

\* The timestamp of the backup a decision names (path k is entry k).
StampOf(decision) == p_backups[decision.target][1]

(***************************************************************************)
(* C29: with a non-empty checkpoint list the decisions come newest first   *)
(* (timestamps never increase along the list), no backup is scheduled      *)
(* twice, and the destination is asked to delete them in that order.       *)
(***************************************************************************)
C29_DeletionsNewestFirst ==
    (p_pc \in {"planned", "replanned", "delivered"} /\ p_checkpoints # <<>>) =>
        /\ \A j, k \in 1..Len(p_deletions) :
               j < k => /\ StampOf(p_deletions[j]) >= StampOf(p_deletions[k])
                        /\ p_deletions[j].target # p_deletions[k].target
        /\ p_pc = "delivered" =>
               FirstSeen(p_received) =
                   [k \in 1..Len(p_deletions) |-> p_deletions[k].target]

\* Two decisions with falling timestamps were handed to a local directory,
\* which got the first of them twice.
C29_Witness ==
    /\ p_pc = "delivered"
    /\ p_kind = "local"
    /\ p_checkpoints # <<>>
    /\ Len(p_deletions) = 2
    /\ StampOf(p_deletions[1]) > StampOf(p_deletions[2])
    /\ Len(p_received) = 3

\* -------------------------------------------------- restore specification
\* An entry name of the server directory is a base name followed by the
\* "_"-separated parts appended to it: "_Old", a timestamp, a counter.
MaxClock == 2

BasePart(b) == [kind |-> "base", n |-> b]
OldPart == [kind |-> "Old", n |-> 0]
StampPart(t) == [kind |-> "timestamp", n |-> t]
CounterPart(c) == [kind |-> "counter", n |-> c]

World == <<BasePart(1)>>
Nether == <<BasePart(2)>>

\* destination.with_name(f"{destination.name}_Old") and the suffixed forms
Old(name) == Append(name, OldPart)
OldStamped(name, t) == name \o <<OldPart, StampPart(t)>>
OldCounted(name, t, c) == name \o <<OldPart, StampPart(t), CounterPart(c)>>

\* The top-level directories an archive may hold, in the order sorted()
\* gives them: "world" < "world_Old" < "world_nether".
ArchiveOrder == <<World, Old(World), Nether>>

\* The entries the server directory may hold when the restore is called.
ServerNames ==
    {World, Old(World), Old(Old(World)), Nether, Old(Nether)}
        \cup {OldStamped(World, t) : t \in 1..MaxClock}
        \cup {OldCounted(World, t, 1) : t \in 1..MaxClock}

\* What an entry holds: the content it had on the server before the restore,
\* or the content of a directory of the archive.
ServerContent(name) == [origin |-> "server", name |-> name]
ArchiveContent(name) == [origin |-> "archive", name |-> name]

\* The while loop of _next_old_path.
RECURSIVE counter_loop(_, _, _, _)
counter_loop(destination, existing, timestamp, counter) ==
    IF OldCounted(destination, timestamp, counter) \in existing
    THEN counter_loop(destination, existing, timestamp, counter + 1)
    ELSE OldCounted(destination, timestamp, counter)

_next_old_path(destination, existing, timestamp) ==
    IF Old(destination) \notin existing THEN Old(destination)
    ELSE IF OldStamped(destination, timestamp) \notin existing
    THEN OldStamped(destination, timestamp)
    ELSE counter_loop(destination, existing, timestamp, 1)

\* Variant that renames in a dry run too.
rename_aside_always(server, destination, old_path, dry) ==
    [n \in (DOMAIN server \ {destination}) \cup {old_path} |->
        IF n = old_path THEN server[destination] ELSE server[n]]

\* "if not dry_run: destination_dir.rename(old_path)"
rename_aside(server, destination, old_path, dry) ==
    IF dry THEN server
    ELSE [n \in (DOMAIN server \ {destination}) \cup {old_path} |->
             IF n = old_path THEN server[destination] ELSE server[n]]

\* "if not dry_run: if destination_dir.exists(): rmtree; shutil.move(...)"
move_in(server, destination, content, dry) ==
    IF dry THEN server
    ELSE [n \in DOMAIN server \cup {destination} |->
             IF n = destination THEN content ELSE server[n]]

\* A directory with its entries as they are when the restore is called.
Directory(names) == [n \in names |-> ServerContent(n)]

RestoreInit ==
    /\ CycleIdle
    /\ MergeIdle
    /\ CatalogIdle
    /\ p_pc = "input"
    /\ p_backups = <<>>
    /\ p_checkpoints = <<>>
    /\ p_deletions = <<>>
    /\ p_again = <<>>
    /\ p_kind = "none"
    /\ p_received = <<>>
    /\ r_pc = "args"
    /\ r_problem \in {"none", "archive_missing", "archive_not_file",
                      "archive_not_zip", "server_dir_missing",
                      "server_dir_not_directory"}
    /\ r_dry_run \in BOOLEAN
    /\ r_archive \in SUBSET {ArchiveOrder[k] : k \in 1..Len(ArchiveOrder)}
    /\ r_server \in {Directory(names) : names \in SUBSET ServerNames}
    /\ r_server0 = r_server
    /\ r_todo = <<>>
    /\ r_now \in 1..MaxClock

\* The checks of the arguments raise.
RestoreRaises ==
    /\ r_pc = "args"
    /\ r_problem # "none"
    /\ r_pc' = "raised"
    /\ UNCHANGED <<r_problem, r_dry_run, r_archive, r_server, r_server0,
                   r_todo, r_now>>
    /\ UNCHANGED <<cvars, pvars, mvars, kvars>>

\* extractall into the temporary directory and "top_level_dirs = sorted(...)"
Extract ==
    /\ r_pc = "args"
    /\ r_problem = "none"
    /\ r_todo' = LET held(name) == name \in r_archive
                 IN  SelectSeq(ArchiveOrder, held)
    /\ r_pc' = "loop"
    /\ UNCHANGED <<r_problem, r_dry_run, r_archive, r_server, r_server0, r_now>>
    /\ UNCHANGED <<cvars, pvars, mvars, kvars>>

\* One iteration of "for extracted_dir in top_level_dirs".
RestoreDirectory ==
    /\ r_pc = "loop"
    /\ r_todo # <<>>
    /\ LET destination_dir == Head(r_todo)
           old_path == _next_old_path(destination_dir, DOMAIN r_server, r_now)
           aside == IF destination_dir \in DOMAIN r_server
                    THEN rename_aside(r_server, destination_dir, old_path,
                                      r_dry_run)
                    ELSE r_server
       IN  r_server' = move_in(aside, destination_dir,
                               ArchiveContent(destination_dir), r_dry_run)
    /\ r_todo' = Tail(r_todo)
    /\ UNCHANGED <<r_pc, r_problem, r_dry_run, r_archive, r_server0, r_now>>
    /\ UNCHANGED <<cvars, pvars, mvars, kvars>>

\* The loop is over and restore_backup_archive returns.
RestoreReturns ==
    /\ r_pc = "loop"
    /\ r_todo = <<>>
    /\ r_pc' = "done"
    /\ UNCHANGED <<r_problem, r_dry_run, r_archive, r_server, r_server0,
                   r_todo, r_now>>
    /\ UNCHANGED <<cvars, pvars, mvars, kvars>>

\* A second passes while the restore runs.
Tick ==
    /\ r_pc = "loop"
    /\ r_now < MaxClock
    /\ r_now' = r_now + 1
    /\ UNCHANGED <<r_pc, r_problem, r_dry_run, r_archive, r_server, r_server0,
                   r_todo>>
    /\ UNCHANGED <<cvars, pvars, mvars, kvars>>

RestoreNext ==
    RestoreRaises \/ Extract \/ RestoreDirectory \/ RestoreReturns \/ Tick

RestoreSpec == RestoreInit /\ [][RestoreNext]_vars

\* The names a directory's previous content may be kept under.
OldNamesOf(name) ==
    {Old(name)}
        \cup {OldStamped(name, t) : t \in 1..MaxClock}
        \cup {OldCounted(name, t, c) : t \in 1..MaxClock, c \in 1..2}

\* Every entry the server had still holds what it held, unless the archive
\* has a directory of that name.
OthersUntouched ==
    \A n \in DOMAIN r_server0 :
        n \notin r_archive => (n \in DOMAIN r_server /\ r_server[n] = r_server0[n])

(***************************************************************************)
(* C26: after a real restore every top-level directory D of the archive    *)
(* is on the server with the archive's content, and what the server had at *)
(* D before is kept under D_Old, or under D_Old_<timestamp>[_n] when D_Old *)
(* existed, a name that was free before; no other entry is changed.        *)
(***************************************************************************)
C26_RestoredWithOldKept ==
    (r_pc = "done" /\ ~r_dry_run) =>
        /\ \A D \in r_archive :
               /\ D \in DOMAIN r_server
               /\ r_server[D] = ArchiveContent(D)
               /\ D \in DOMAIN r_server0 =>
                      \E kept \in OldNamesOf(D) :
                          /\ kept \in DOMAIN r_server
                          /\ kept \notin DOMAIN r_server0
                          /\ r_server[kept] = r_server0[D]
                          /\ (kept # Old(D)) => Old(D) \in DOMAIN r_server0
        /\ OthersUntouched

\* The same for archives that do not hold D and D_Old together.
RestoredWithOldKeptElsewhere ==
    (\A D \in r_archive : Old(D) \notin r_archive) => C26_RestoredWithOldKept

\* Whatever the archive holds: the archive's content is in place and nothing
\* the server had is lost.
NothingLost ==
    (r_pc = "done" /\ ~r_dry_run) =>
        /\ \A D \in r_archive :
               D \in DOMAIN r_server /\ r_server[D] = ArchiveContent(D)
        /\ \A n \in DOMAIN r_server0 :
               \E m \in DOMAIN r_server : r_server[m] = r_server0[n]

(***************************************************************************)
(* C27: a dry-run restore never changes the server directory: no entry is  *)
(* renamed and no content is replaced, at any step.                        *)
(***************************************************************************)
C27_DryRunRestoreChangesNothing ==
    r_dry_run => r_server = r_server0

\* A dry run visited a directory that exists on the server and returned.
C27_Witness ==
    /\ r_dry_run
    /\ r_pc = "done"
    /\ r_archive \cap DOMAIN r_server0 # {}
    /\ Old(World) \in DOMAIN r_server0
    /\ World \in r_archive

====
